---- MODULE Spec2Model ----
(***************************************************************************)
(* Model of cmd/frontend/internal/httpapi/internal.go:                     *)
(*   - serveGitoliteUpdateReposDeprecated (the Gitolite sync handler),     *)
(*   - serveGitInfoRefs / serveGitUploadPack (the git smart-HTTP bridge),  *)
(*   - packetWrite (the pkt-line encoder).                                 *)
(***************************************************************************)
EXTENDS Integers, Sequences, FiniteSets, TLC

(***************************************************************************)
(* Bounds of the model.                                                    *)
(***************************************************************************)
\* longest payload handed to packetWrite, boundary lengths aside
MaxPayloadLen == 20
\* disturbances over a behaviour: a collaborator call failing for a transient
\* reason, a cancellation of the request in flight, an edit of the configuration
MaxDisturbances == 1
\* invocations of the sync handler in one behaviour
MaxRuns == 2

\* repository names known to the model
Names == {"a", "b"}

\* states of a name in the repository directory (db.Repos)
DirStates == {"absent", "enabled", "disabled"}

RECURSIVE SeqsUpTo(_, _)
SeqsUpTo(S, n) ==
    IF n = 0 THEN {<< >>}
    ELSE LET shorter == SeqsUpTo(S, n - 1)
         IN  shorter \cup {Append(s, x) : s \in {t \in shorter : Len(t) = n - 1}, x \in S}

\* what a host may list: the names in any order, none repeated
Listings == {s \in SeqsUpTo(Names, Cardinality(Names)) :
                \A p, q \in 1..Len(s) : s[p] = s[q] => p = q}

VARIABLES
    \* ---- environment of the sync handler
    conf,          \* conf.Get(): [Gitolite, DisableAutoGitUpdates]
    remote,        \* what ListGitolite returns per host name
    dir,           \* repository directory: name -> DirStates
    dirChanged,    \* a record was added to the directory since the first run started
    isCloned,      \* gitserver clone state: name -> BOOLEAN
    reqCancelled,  \* the triggering request's context has been cancelled
    cancelledEarly, \* it was cancelled before the run made its first call
    faults,        \* transient collaborator failures so far
    envChanged,    \* the configuration changed since the first run started
    startDisabled, \* DisableAutoGitUpdates as it was when the current run started
    \* ---- the sync handler's position and locals
    pc, run, hosts, h, rlist, i, repo, cloned,
    \* ---- what the handler did
    calls,         \* collaborator calls of the current run, in order
    prevEnq,       \* names the previous run issued an enqueue for
    retErr,        \* the handler returned an error
    resp,          \* writes to the http.ResponseWriter, in order
    \* ---- the git smart-HTTP bridge
    bpc,           \* "idle", "received" (a request is in flight) or "done"
    breq,          \* the request: [kind, service, repo]
    bcalls,        \* collaborator calls of the request, in order
    berr,          \* the error the handler returned, "" for none
    bresp,         \* writes to the http.ResponseWriter, in order
    \* ---- packetWrite
    pktPc, pktIn, pktOut

syncVars == <<conf, remote, dirChanged, dir, isCloned, reqCancelled, cancelledEarly, faults, envChanged,
              startDisabled,
              pc, run, hosts, h, rlist, i, repo, cloned,
              calls, prevEnq, retErr, resp>>

bridgeVars == <<bpc, breq, bcalls, berr, bresp>>

pktVars == <<pktPc, pktIn, pktOut>>

vars == <<syncVars, bridgeVars, pktVars>>

(***************************************************************************)
(* Configuration: conf.Get().Gitolite, one connection per host.            *)
(***************************************************************************)
GitoliteConns ==
    << [Host |-> "h1", PhabricatorMetadataCommand |-> "cmd"],
       [Host |-> "h2", PhabricatorMetadataCommand |-> ""] >>

HostNames == {GitoliteConns[k].Host : k \in 1..Len(GitoliteConns)}

NoRepo == [URI |-> "", Enabled |-> FALSE]

(***************************************************************************)
(* Contexts.  A context.Background() is never done; the request's context  *)
(* is done once the request is cancelled.  A collaborator call made with a *)
(* done context fails.                                                     *)
(***************************************************************************)
CtxDone(ctx) == ctx = "request" /\ reqCancelled

\* line 52, were the handler to use r.Context()
SyncContextRequest == "request"

\* line 52: ctx := context.Background(), passed to every collaborator call
SyncContext == "background"

\* disturbances so far
Disturbances ==
    faults + (IF reqCancelled THEN 1 ELSE 0) + (IF envChanged THEN 1 ELSE 0)

\* results a collaborator call may have: TRUE (success) or FALSE (error)
Outcomes(ctx) ==
    IF CtxDone(ctx) THEN {FALSE}
    ELSE IF Disturbances < MaxDisturbances THEN {TRUE, FALSE}
    ELSE {TRUE}

\* the fault budget after a call made with ctx ended ok
FaultsAfter(ctx, ok) == IF ok \/ CtxDone(ctx) THEN faults ELSE faults + 1

\* one collaborator call, as recorded in calls
Call(op, hi, ei, arg, ok, res, ctx) ==
    [op |-> op, h |-> hi, i |-> ei, arg |-> arg, ok |-> ok, res |-> res,
     ctxDone |-> CtxDone(ctx)]

\* names the calls of a run issued an enqueue for
EnqueuedIn(cs) == {cs[k].arg : k \in {j \in 1..Len(cs) : cs[j].op = "EnqueueRepoUpdate"}}

(***************************************************************************)
(* Pure parts of the handler.                                              *)
(***************************************************************************)
\* lines 60-63, were the ops built with Enabled: false
InsertRepoOpsDisabled(rl) == [k \in 1..Len(rl) |-> [URI |-> rl[k], Enabled |-> FALSE]]

\* lines 60-63: one InsertRepoOp per listed entry, Enabled: true
InsertRepoOps(rl) == [k \in 1..Len(rl) |-> [URI |-> rl[k], Enabled |-> TRUE]]

\* line 87, were the two conditions joined by &&
ShouldEnqueueAnd(disabled, cl) == ~disabled /\ ~cl

\* line 87, were only the clone state consulted
ShouldEnqueueOnlyUncloned(disabled, cl) == ~cl

\* line 87: !conf.Get().DisableAutoGitUpdates || !cloned
ShouldEnqueue(disabled, cl) == ~disabled \/ ~cl

\* backend.Repos.TryInsertNewBatch: insert-if-absent of every op
DirAfterInsert(d, ops) ==
    [n \in Names |->
        IF d[n] = "absent" /\ \E k \in 1..Len(ops) : ops[k].URI = n
        THEN LET k == CHOOSE k \in 1..Len(ops) : ops[k].URI = n
             IN  IF ops[k].Enabled THEN "enabled" ELSE "disabled"
        ELSE d[n]]

\* the other parts of the file at rest
BridgeIdle ==
    /\ bpc = "idle"
    /\ breq = [kind |-> "", service |-> "", repo |-> ""]
    /\ bcalls = << >>
    /\ berr = ""
    /\ bresp = << >>

PktIdle ==
    /\ pktPc = "idle"
    /\ pktIn = << >>
    /\ pktOut = << >>

SyncIdle ==
    /\ conf = [Gitolite |-> GitoliteConns, DisableAutoGitUpdates |-> FALSE]
    /\ remote = [x \in HostNames |-> << >>]
    /\ isCloned = [n \in Names |-> FALSE]
    /\ envChanged = FALSE
    /\ startDisabled = FALSE
    /\ cancelledEarly = FALSE
    /\ pc = "idle"
    /\ run = 0
    /\ hosts = << >>
    /\ h = 0
    /\ rlist = << >>
    /\ i = 0
    /\ repo = NoRepo
    /\ cloned = FALSE
    /\ calls = << >>
    /\ prevEnq = {}
    /\ retErr = FALSE
    /\ resp = << >>

(***************************************************************************)
(* Initial states of the sync handler.                                     *)
(***************************************************************************)
\* The handler treats every name alike, and the directory and clone states below
\* range over all assignments to the names: of the initial states that differ only
\* by swapping the names, the one whose first listed name is "a" is kept.
InitSync ==
    /\ conf \in [Gitolite : {GitoliteConns}, DisableAutoGitUpdates : BOOLEAN]
    /\ remote \in [HostNames -> Listings]
    /\ LET all == remote[GitoliteConns[1].Host] \o remote[GitoliteConns[2].Host]
       IN  all # << >> => all[1] = "a"
    /\ dir \in [Names -> DirStates]
    /\ isCloned \in [Names -> BOOLEAN]
    /\ dirChanged = FALSE
    /\ reqCancelled = FALSE
    /\ faults = 0
    /\ envChanged = FALSE
    /\ startDisabled = conf.DisableAutoGitUpdates
    /\ cancelledEarly = FALSE
    /\ pc = "idle"
    /\ run = 0
    /\ hosts = << >>
    /\ h = 0
    /\ rlist = << >>
    /\ i = 0
    /\ repo = NoRepo
    /\ cloned = FALSE
    /\ calls = << >>
    /\ prevEnq = {}
    /\ retErr = FALSE
    /\ resp = << >>
    /\ BridgeIdle
    /\ PktIdle

(***************************************************************************)
(* serveGitoliteUpdateReposDeprecated, step by step.                       *)
(***************************************************************************)
\* entering the handler: lines 47-54 (ctx, and the range over conf.Get().Gitolite)
StartSync ==
    /\ pc = "idle" \/ (pc = "done" /\ run < MaxRuns)
    /\ run' = run + 1
    /\ hosts' = conf.Gitolite
    /\ startDisabled' = conf.DisableAutoGitUpdates
    /\ h' = 1
    /\ pc' = "list"
    /\ prevEnq' = EnqueuedIn(calls)
    /\ calls' = << >>
    /\ retErr' = FALSE
    /\ resp' = << >>
    /\ reqCancelled' = FALSE
    /\ cancelledEarly' = FALSE
    /\ rlist' = << >>
    /\ i' = 0
    /\ repo' = NoRepo
    /\ cloned' = FALSE
    /\ UNCHANGED <<conf, remote, dirChanged, dir, isCloned, faults, envChanged>>
    /\ UNCHANGED <<bridgeVars, pktVars>>

\* the head of the inner loop (line 69) for entry k, or the next host (line 54)
NextEntry(k) ==
    IF k <= Len(rlist)
    THEN /\ pc' = "lookup"
         /\ i' = k
         /\ h' = h
    ELSE /\ pc' = "list"
         /\ i' = 0
         /\ h' = h + 1

\* `continue` (lines 74, 78, 85, 93), were it a `break`
ContinueAsBreak(k) == NextEntry(Len(rlist) + 1)

\* `continue` (lines 74, 78, 85, 93): on to the entry after entry k
Continue(k) == NextEntry(k + 1)

\* line 57, were a listing failure to move on to the next host
ReturnErrAsSkip ==
    /\ pc' = "list"
    /\ h' = h + 1
    /\ retErr' = retErr

\* line 57: return err
ReturnErr ==
    /\ pc' = "done"
    /\ h' = h
    /\ retErr' = TRUE

\* the same for the listing just obtained
FirstEntry(rl) ==
    IF 1 <= Len(rl)
    THEN /\ pc' = "lookup"
         /\ i' = 1
         /\ h' = h
    ELSE /\ pc' = "list"
         /\ i' = 0
         /\ h' = h + 1

\* lines 55-58: rlist, err := ListGitolite(ctx, gconf.Host); if err != nil { return err }
ListGitolite ==
    /\ pc = "list"
    /\ h <= Len(hosts)
    /\ \E ok \in Outcomes(SyncContext) :
        /\ calls' = Append(calls, Call("ListGitolite", h, 0, hosts[h].Host, ok, FALSE, SyncContext))
        /\ faults' = FaultsAfter(SyncContext, ok)
        /\ IF ok
           THEN /\ rlist' = remote[hosts[h].Host]
                /\ pc' = "insert"
                /\ h' = h
                /\ retErr' = retErr
           ELSE /\ rlist' = << >>
                /\ ReturnErr
    /\ UNCHANGED <<conf, startDisabled, remote, dirChanged, dir, isCloned, reqCancelled, cancelledEarly, envChanged,
                   run, hosts, i, repo, cloned, prevEnq, resp>>
    /\ UNCHANGED <<bridgeVars, pktVars>>

\* lines 60-66: the batch insert; its failure is only logged
TryInsertNewBatch ==
    /\ pc = "insert"
    /\ \E ok \in Outcomes(SyncContext) :
        /\ calls' = Append(calls, Call("TryInsertNewBatch", h, 0, InsertRepoOps(rlist), ok, FALSE, SyncContext))
        /\ faults' = FaultsAfter(SyncContext, ok)
        /\ dir' = IF ok THEN DirAfterInsert(dir, InsertRepoOps(rlist)) ELSE dir
        /\ dirChanged' = (dirChanged \/ dir' # dir)
        /\ FirstEntry(rlist)
    /\ UNCHANGED <<conf, startDisabled, remote, isCloned, reqCancelled, cancelledEarly, envChanged,
                   run, hosts, rlist, repo, cloned, prevEnq, retErr, resp>>
    /\ UNCHANGED <<bridgeVars, pktVars>>

\* line 77, were a disabled repository to go on to the clone check
SkipDisabledNever(r) == FALSE

\* line 77: if !repo.Enabled { continue }
SkipDisabled(r) == ~r.Enabled

\* lines 70-79: repo, err := GetByURI(ctx, uri); continue on error or !repo.Enabled
GetByURI ==
    /\ pc = "lookup"
    /\ LET uri == rlist[i] IN
       \E ok \in (IF dir[uri] = "absent" THEN {FALSE} ELSE Outcomes(SyncContext)) :
        LET r == IF ok THEN [URI |-> uri, Enabled |-> dir[uri] = "enabled"] ELSE NoRepo IN
        /\ calls' = Append(calls, Call("GetByURI", h, i, uri, ok, dir[uri] = "enabled", SyncContext))
        /\ faults' = IF dir[uri] = "absent" THEN faults ELSE FaultsAfter(SyncContext, ok)
        /\ repo' = r
        /\ IF ~ok
           THEN Continue(i)
           ELSE IF SkipDisabled(r)
           THEN Continue(i)
           ELSE /\ pc' = "iscloned"
                /\ UNCHANGED <<h, i>>
    /\ UNCHANGED <<conf, startDisabled, remote, dirChanged, dir, isCloned, reqCancelled, cancelledEarly, envChanged,
                   run, hosts, rlist, cloned, prevEnq, retErr, resp>>
    /\ UNCHANGED <<bridgeVars, pktVars>>

\* lines 82-86: cloned, err := IsRepoCloned(ctx, uri); continue on error
IsRepoCloned ==
    /\ pc = "iscloned"
    /\ LET uri == rlist[i] IN
       \E ok \in Outcomes(SyncContext) :
        /\ calls' = Append(calls, Call("IsRepoCloned", h, i, uri, ok, isCloned[uri], SyncContext))
        /\ faults' = FaultsAfter(SyncContext, ok)
        /\ IF ~ok
           THEN /\ cloned' = FALSE
                /\ Continue(i)
           ELSE /\ cloned' = isCloned[uri]
                /\ pc' = "decide"
                /\ UNCHANGED <<h, i>>
    /\ UNCHANGED <<conf, startDisabled, remote, dirChanged, dir, isCloned, reqCancelled, cancelledEarly, envChanged,
                   run, hosts, rlist, repo, prevEnq, retErr, resp>>
    /\ UNCHANGED <<bridgeVars, pktVars>>

\* lines 91-94, were a failed enqueue only logged
EnqueueErrLogOnly(k) ==
    /\ pc' = "meta"
    /\ UNCHANGED <<h, i>>

\* lines 91-94: if err != nil { log15.Warn(...); continue }
EnqueueErr(k) == Continue(k)

\* lines 87-95: the enqueue decision (conf is read here) and EnqueueRepoUpdate
EnqueueRepoUpdate ==
    /\ pc = "decide"
    /\ LET disabled == conf.DisableAutoGitUpdates
           read == Call("conf.Get", h, i, "DisableAutoGitUpdates", TRUE, disabled, SyncContext)
       IN  IF ShouldEnqueue(disabled, cloned)
           THEN \E ok \in Outcomes(SyncContext) :
                  /\ calls' = calls \o << read,
                                Call("EnqueueRepoUpdate", h, i, repo.URI, ok, FALSE, SyncContext) >>
                  /\ faults' = FaultsAfter(SyncContext, ok)
                  /\ IF ~ok
                     THEN EnqueueErr(i)
                     ELSE /\ pc' = "meta"
                          /\ UNCHANGED <<h, i>>
           ELSE /\ calls' = Append(calls, read)
                /\ faults' = faults
                /\ pc' = "meta"
                /\ UNCHANGED <<h, i>>
    /\ UNCHANGED <<conf, startDisabled, remote, dirChanged, dir, isCloned, reqCancelled, cancelledEarly, envChanged,
                   run, hosts, rlist, repo, cloned, prevEnq, retErr, resp>>
    /\ UNCHANGED <<bridgeVars, pktVars>>

\* lines 97-99: the Phabricator metadata side call, then the next entry
PhabricatorMetadata ==
    /\ pc = "meta"
    /\ calls' = IF hosts[h].PhabricatorMetadataCommand # ""
                THEN Append(calls, Call("tryUpdateGitolitePhabricatorMetadata", h, i,
                                        rlist[i], TRUE, FALSE, SyncContext))
                ELSE calls
    /\ NextEntry(i + 1)
    /\ UNCHANGED <<conf, startDisabled, remote, dirChanged, dir, isCloned, reqCancelled, cancelledEarly, faults, envChanged,
                   run, hosts, rlist, repo, cloned, prevEnq, retErr, resp>>
    /\ UNCHANGED <<bridgeVars, pktVars>>

\* lines 103-105: every host is done; 204 and "OK"
FinishSync ==
    /\ pc = "list"
    /\ h > Len(hosts)
    /\ resp' = << [kind |-> "WriteHeader", val |-> 204], [kind |-> "Write", val |-> <<"O", "K">>] >>
    /\ pc' = "done"
    /\ UNCHANGED <<conf, startDisabled, remote, dirChanged, dir, isCloned, reqCancelled, cancelledEarly, faults, envChanged,
                   run, hosts, h, rlist, i, repo, cloned, calls, prevEnq, retErr>>
    /\ UNCHANGED <<bridgeVars, pktVars>>

(***************************************************************************)
(* The environment of a running pass.                                      *)
(***************************************************************************)
\* the client of the triggering request goes away
CancelRequest ==
    /\ pc \notin {"idle", "done"}
    /\ ~reqCancelled
    /\ Disturbances < MaxDisturbances
    /\ reqCancelled' = TRUE
    /\ cancelledEarly' = (calls = << >>)
    /\ UNCHANGED <<conf, startDisabled, remote, dirChanged, dir, isCloned, faults, envChanged,
                   pc, run, hosts, h, rlist, i, repo, cloned, calls, prevEnq, retErr, resp>>
    /\ UNCHANGED <<bridgeVars, pktVars>>

\* the site configuration is edited while a run is in flight:
\* DisableAutoGitUpdates flips
ConfChange ==
    /\ pc \notin {"idle", "done"}
    /\ ~envChanged
    /\ Disturbances < MaxDisturbances
    /\ conf' = [conf EXCEPT !.DisableAutoGitUpdates = ~@]
    /\ envChanged' = TRUE
    /\ UNCHANGED <<startDisabled, remote, dirChanged, dir, isCloned, reqCancelled, cancelledEarly, faults,
                   pc, run, hosts, h, rlist, i, repo, cloned, calls, prevEnq, retErr, resp>>
    /\ UNCHANGED <<bridgeVars, pktVars>>

NextSync ==
    \/ StartSync
    \/ ListGitolite
    \/ TryInsertNewBatch
    \/ GetByURI
    \/ IsRepoCloned
    \/ EnqueueRepoUpdate
    \/ PhabricatorMetadata
    \/ FinishSync
    \/ CancelRequest
    \/ ConfChange

SpecSync == InitSync /\ [][NextSync]_vars

Spec == SpecSync

(***************************************************************************)
(* packetWrite: byte strings are sequences of one-character strings.       *)
(***************************************************************************)
HexDigits == << "0", "1", "2", "3", "4", "5", "6", "7",
                "8", "9", "a", "b", "c", "d", "e", "f" >>

\* strconv.FormatInt(n, 16) for n >= 0: lowercase, no leading zeros
RECURSIVE FormatInt16(_)
FormatInt16(n) ==
    IF n < 16 THEN << HexDigits[n + 1] >>
    ELSE Append(FormatInt16(n \div 16), HexDigits[(n % 16) + 1])

\* strings.Repeat("0", n)
Repeat0(n) == [k \in 1..n |-> "0"]

\* packetWrite, were the length prefix not to count its own four bytes
packetWriteNoPrefixLen(str) ==
    LET s == FormatInt16(Len(str))
    IN  (IF Len(s) % 4 # 0 THEN Repeat0(4 - (Len(s) % 4)) \o s ELSE s) \o str

\* packetWrite, lines 621-627
packetWrite(str) ==
    LET s == FormatInt16(Len(str) + 4)
    IN  (IF Len(s) % 4 # 0 THEN Repeat0(4 - (Len(s) % 4)) \o s ELSE s) \o str

\* payload lengths at which the prefix gains a digit, and the longest payload
BoundaryLens == {11, 12, 251, 252, 4091, 4092, 65515, 65516}

PayloadLens == (0..MaxPayloadLen) \cup BoundaryLens

PayloadBytes == {"x", "0", "\n"}

\* a payload of length n: a at the odd places, b at the even ones
Payload(n, a, b) == [k \in 1..n |-> IF k % 2 = 1 THEN a ELSE b]

Payloads == {Payload(n, a, b) : n \in PayloadLens, a \in PayloadBytes, b \in PayloadBytes}

InitPkt ==
    /\ pktPc = "ready"
    /\ pktIn \in Payloads
    /\ pktOut = << >>
    /\ dir = [n \in Names |-> "absent"]
    /\ dirChanged = FALSE
    /\ reqCancelled = FALSE
    /\ faults = 0
    /\ SyncIdle
    /\ BridgeIdle

\* one call of packetWrite
PacketWrite ==
    /\ pktPc = "ready"
    /\ pktOut' = packetWrite(pktIn)
    /\ pktPc' = "done"
    /\ UNCHANGED <<pktIn, syncVars, bridgeVars>>

NextPkt == PacketWrite

SpecPkt == InitPkt /\ [][NextPkt]_vars

(***************************************************************************)
(* The git smart-HTTP bridge: serveGitInfoRefs and serveGitUploadPack.     *)
(***************************************************************************)
\* "# service=git-upload-pack\n"
ServiceHeader ==
    << "#", " ", "s", "e", "r", "v", "i", "c", "e", "=",
       "g", "i", "t", "-", "u", "p", "l", "o", "a", "d", "-", "p", "a", "c", "k", "\n" >>

\* []byte("0000")
FlushPkt == << "0", "0", "0", "0" >>

\* values of the service query parameter; "" is an absent parameter
Services == {"git-upload-pack", "git-receive-pack", ""}

\* what `git upload-pack --stateless-rpc --advertise-refs .` may print
RefsBlobs ==
    { << >>,
      << "0", "0", "0", "0" >>,
      << "0", "0", "0", "8", "r", "e", "f", "\n", "0", "0", "0", "0" >> }

\* what the upload-pack session may stream back
PackBlobs == { << >>, << "0", "0", "0", "8", "N", "A", "K", "\n" >> }

\* line 582, were git-receive-pack let through as well
ServiceSupportedAnyPack(service) == service \in {"git-upload-pack", "git-receive-pack"}

\* line 582: service == "git-upload-pack"
ServiceSupported(service) == service = "git-upload-pack"

\* line 592, were every repository taken as enabled
RepoEnabledAlways(st) == TRUE

\* line 592 (and line 77): repo.Enabled
RepoEnabled(st) == st = "enabled"

\* lines 602-606, were the advertisement framed as a pkt-line of its own
AdvertisementWritesFramed(refs) ==
    << [kind |-> "Header.Set", val |-> "application/x-git-upload-pack-advertisement"],
       [kind |-> "WriteHeader", val |-> 200],
       [kind |-> "Write", val |-> packetWrite(ServiceHeader)],
       [kind |-> "Write", val |-> FlushPkt],
       [kind |-> "Write", val |-> packetWrite(refs)] >>

\* lines 602-606: the content type, the status and the three writes
AdvertisementWrites(refs) ==
    << [kind |-> "Header.Set", val |-> "application/x-git-upload-pack-advertisement"],
       [kind |-> "WriteHeader", val |-> 200],
       [kind |-> "Write", val |-> packetWrite(ServiceHeader)],
       [kind |-> "Write", val |-> FlushPkt],
       [kind |-> "Write", val |-> refs] >>

\* the context the bridge passes to its collaborator calls: r.Context()
BridgeContext == "request"

\* the bytes written to a ResponseWriter, in order
RECURSIVE Body(_)
Body(ws) ==
    IF ws = << >> THEN << >>
    ELSE (IF Head(ws).kind = "Write" THEN Head(ws).val ELSE << >>) \o Body(Tail(ws))

InitBridge ==
    /\ dir \in [Names -> DirStates]
    /\ dirChanged = FALSE
    /\ reqCancelled = FALSE
    /\ faults = 0
    /\ SyncIdle
    /\ BridgeIdle
    /\ PktIdle

\* a request reaches the bridge
ReceiveRequest ==
    /\ bpc \in {"idle", "done"}
    /\ \E kind \in {"info/refs", "git-upload-pack"}, name \in Names :
         \E service \in (IF kind = "info/refs" THEN Services ELSE {""}) :
           breq' = [kind |-> kind, service |-> service, repo |-> name]
    /\ bpc' = "received"
    /\ bcalls' = << >>
    /\ berr' = ""
    /\ bresp' = << >>
    /\ reqCancelled' = FALSE
    /\ faults' = 0
    /\ UNCHANGED <<conf, startDisabled, remote, dirChanged, dir, isCloned, cancelledEarly, envChanged, pc, run, hosts, h, rlist, i,
                   repo, cloned, calls, prevEnq, retErr, resp, pktVars>>

\* the peer of the request in flight goes away
CancelBridgeRequest ==
    /\ bpc = "received"
    /\ ~reqCancelled
    /\ Disturbances < MaxDisturbances
    /\ reqCancelled' = TRUE
    /\ UNCHANGED <<conf, startDisabled, remote, dirChanged, dir, isCloned, cancelledEarly, faults, envChanged, pc, run, hosts, h,
                   rlist, i, repo, cloned, calls, prevEnq, retErr, resp, bridgeVars, pktVars>>

\* serveGitInfoRefs, lines 580-608
serveGitInfoRefs ==
    /\ bpc = "received"
    /\ breq.kind = "info/refs"
    /\ bpc' = "done"
    /\ IF ~ServiceSupported(breq.service)
       THEN /\ berr' = "only support service git-upload-pack"
            /\ UNCHANGED <<bcalls, bresp, faults>>
       ELSE \E found \in (IF dir[breq.repo] = "absent" THEN {FALSE} ELSE Outcomes(BridgeContext)) :
            LET lookup == Call("GetByURI", 0, 0, breq.repo, found, dir[breq.repo] = "enabled", BridgeContext)
            IN  IF ~found
                THEN /\ berr' = "repo not found"
                     /\ bcalls' = << lookup >>
                     /\ bresp' = bresp
                     /\ faults' = IF dir[breq.repo] = "absent" THEN faults
                                  ELSE FaultsAfter(BridgeContext, found)
                ELSE IF ~RepoEnabled(dir[breq.repo])
                THEN /\ berr' = "repo is not enabled"
                     /\ bcalls' = << lookup >>
                     /\ bresp' = bresp
                     /\ faults' = faults
                ELSE \E refs \in RefsBlobs :
                     \E ok \in Outcomes(BridgeContext) :
                       /\ bcalls' = << lookup,
                                       Call("Command.Output", 0, 0, breq.repo, ok, refs, BridgeContext) >>
                       /\ faults' = FaultsAfter(BridgeContext, ok)
                       /\ IF ~ok
                          THEN /\ berr' = "exec failed"
                               /\ bresp' = bresp
                          ELSE /\ berr' = ""
                               /\ bresp' = AdvertisementWrites(refs)
    /\ UNCHANGED <<breq, reqCancelled, cancelledEarly, conf, startDisabled, remote, dirChanged, dir, isCloned, envChanged, pc, run, hosts, h,
                   rlist, i, repo, cloned, calls, prevEnq, retErr, resp, pktVars>>

\* gitserver.DefaultClient.UploadPack(repo, w, r): the session's output goes to w
UploadPackWrites(pack) ==
    << [kind |-> "Header.Set", val |-> "application/x-git-upload-pack-result"],
       [kind |-> "Write", val |-> pack] >>

\* serveGitUploadPack, lines 610-619
serveGitUploadPack ==
    /\ bpc = "received"
    /\ breq.kind = "git-upload-pack"
    /\ bpc' = "done"
    /\ \E found \in (IF dir[breq.repo] = "absent" THEN {FALSE} ELSE Outcomes(BridgeContext)) :
        LET lookup == Call("GetByURI", 0, 0, breq.repo, found, dir[breq.repo] = "enabled", BridgeContext)
        IN  /\ faults' = IF dir[breq.repo] = "absent" THEN faults ELSE FaultsAfter(BridgeContext, found)
            /\ IF ~found
               THEN /\ berr' = "repo not found"
                    /\ bcalls' = << lookup >>
                    /\ bresp' = bresp
               ELSE \E pack \in PackBlobs :
                    /\ berr' = ""
                    /\ bcalls' = << lookup,
                                    Call("UploadPack", 0, 0, breq.repo, TRUE, FALSE, BridgeContext) >>
                    /\ bresp' = UploadPackWrites(pack)
    /\ UNCHANGED <<breq, reqCancelled, cancelledEarly, conf, startDisabled, remote, dirChanged, dir, isCloned, envChanged, pc, run, hosts, h,
                   rlist, i, repo, cloned, calls, prevEnq, retErr, resp, pktVars>>

NextBridge ==
    \/ ReceiveRequest
    \/ CancelBridgeRequest
    \/ serveGitInfoRefs
    \/ serveGitUploadPack

SpecBridge == InitBridge /\ [][NextBridge]_vars

(***************************************************************************)
(* Reading the record of a run of the sync handler.                        *)
(***************************************************************************)
CallsAt(op, hi, ei) ==
    {k \in 1..Len(calls) : calls[k].i = ei /\ calls[k].h = hi /\ calls[k].op = op}

IsCall(k, op, hi, ei) == calls[k].i = ei /\ calls[k].h = hi /\ calls[k].op = op

HasCall(op, hi, ei) == \E k \in 1..Len(calls) : IsCall(k, op, hi, ei)

\* the place of the first such call in the record
CallIdx(op, hi, ei) == CHOOSE k \in 1..Len(calls) : IsCall(k, op, hi, ei)

TheCall(op, hi, ei) == calls[CallIdx(op, hi, ei)]

\* the handler has left entry ei of host hi behind
Past(hi, ei) == pc # "idle" /\ (h > hi \/ (h = hi /\ i > ei))

\* The record of a run only grows and every run comes to an end, so what a
\* run did is read off its record when the handler has returned.
Returned == pc = "done"

\* the listing of host hi was obtained
Listed(hi) == HasCall("ListGitolite", hi, 0) /\ TheCall("ListGitolite", hi, 0).ok

HostListing(hi) == remote[hosts[hi].Host]

HostIdx == 1..Len(hosts)

EntryIdx(hi) == 1..Len(HostListing(hi))

\* entry ei of host hi resolved to an enabled repository
Resolved(hi, ei) ==
    /\ HasCall("GetByURI", hi, ei)
    /\ TheCall("GetByURI", hi, ei).ok
    /\ TheCall("GetByURI", hi, ei).res

\* its clone-presence check succeeded
CloneKnown(hi, ei) ==
    /\ HasCall("IsRepoCloned", hi, ei)
    /\ TheCall("IsRepoCloned", hi, ei).ok

(***************************************************************************)
(* C1.  For every listed entry that resolved to an enabled repository and  *)
(* whose clone-presence check succeeded, an update is enqueued if and only *)
(* if the repository is not cloned or auto-updates are not disabled (the   *)
(* flag as read at line 87).                                               *)
(***************************************************************************)
C1_EnqueueDecision ==
    Returned =>
    \A hi \in HostIdx : \A ei \in EntryIdx(hi) :
        (Past(hi, ei) /\ Resolved(hi, ei) /\ CloneKnown(hi, ei)) =>
            /\ HasCall("conf.Get", hi, ei)
            /\ LET cl == TheCall("IsRepoCloned", hi, ei).res
                   disabled == TheCall("conf.Get", hi, ei).res
               IN  /\ HasCall("EnqueueRepoUpdate", hi, ei) <=> (~cl \/ ~disabled)
                   /\ (~cl /\ disabled) => HasCall("EnqueueRepoUpdate", hi, ei)
                   /\ (cl /\ disabled) => ~HasCall("EnqueueRepoUpdate", hi, ei)
                   /\ (~cl /\ ~disabled) => HasCall("EnqueueRepoUpdate", hi, ei)
                   /\ (cl /\ ~disabled) => HasCall("EnqueueRepoUpdate", hi, ei)

\* one pass skipped a cloned repository and enqueued an uncloned one, updates disabled
C1_Witness ==
    Returned /\
    \E hi \in HostIdx : \E e1, e2 \in EntryIdx(hi) :
        /\ Past(hi, e1) /\ Resolved(hi, e1) /\ CloneKnown(hi, e1)
        /\ Past(hi, e2) /\ Resolved(hi, e2) /\ CloneKnown(hi, e2)
        /\ TheCall("IsRepoCloned", hi, e1).res
        /\ TheCall("conf.Get", hi, e1).res
        /\ ~HasCall("EnqueueRepoUpdate", hi, e1)
        /\ ~TheCall("IsRepoCloned", hi, e2).res
        /\ TheCall("conf.Get", hi, e2).res
        /\ HasCall("EnqueueRepoUpdate", hi, e2)

\* calls made for host hi, the listing call aside
PassCalls(hi) == {k \in 1..Len(calls) : calls[k].h = hi /\ calls[k].op # "ListGitolite"}

\* the listing of host hi failed
ListFailed(hi) == HasCall("ListGitolite", hi, 0) /\ ~TheCall("ListGitolite", hi, 0).ok

EntryCalls(hi, ei) == SelectSeq(calls, LAMBDA c : c.h = hi /\ c.i = ei)

\* what entry ei of host hi went through follows from its own results alone
OwnResultsOnly(hi, ei) ==
    LET es == EntryCalls(hi, ei)
        Ops(op) == {k \in 1..Len(es) : es[k].op = op}
        lookups == Ops("GetByURI")
        checks == Ops("IsRepoCloned")
        reads == Ops("conf.Get")
        resolved == \E k \in lookups : es[k].ok /\ es[k].res
        cloneKnown == \E k \in checks : es[k].ok
    IN  /\ Cardinality(lookups) = 1
        /\ \A k \in lookups : es[k].arg = HostListing(hi)[ei]
        /\ (checks # {}) <=> resolved
        /\ (reads # {}) <=> cloneKnown
        /\ (Ops("EnqueueRepoUpdate") # {}) <=>
              /\ cloneKnown
              /\ \E c \in checks, r \in reads : ~es[c].res \/ ~es[r].res

\* some call made for entry ei of host hi failed
EntryFailed(hi, ei) ==
    \E k \in 1..Len(calls) : calls[k].h = hi /\ calls[k].i = ei /\ ~calls[k].ok

(***************************************************************************)
(* C3.  Within a host's pass a failed lookup, clone-presence check or      *)
(* dispatch of one entry never ends the pass: once the handler is past an  *)
(* entry of a listed host, that entry was looked up, and what was done for *)
(* it follows from its own results, whatever happened to the others.       *)
(***************************************************************************)
C3_EntryFailureIsolated ==
    Returned =>
    \A hi \in HostIdx :
        Listed(hi) => \A ei \in EntryIdx(hi) : Past(hi, ei) => OwnResultsOnly(hi, ei)

\* the first of two entries failed for a transient reason; the second was enqueued
C3_Witness ==
    Returned /\
    \E hi \in HostIdx :
        /\ Listed(hi)
        /\ Len(HostListing(hi)) = 2
        /\ Past(hi, 2)
        /\ EntryFailed(hi, 1)
        /\ dir[HostListing(hi)[1]] = "enabled"
        /\ HasCall("EnqueueRepoUpdate", hi, 2)
        /\ TheCall("EnqueueRepoUpdate", hi, 2).ok

(***************************************************************************)
(* C4.  In each host's pass exactly one batch insert is issued, holding    *)
(* every listed name with Enabled = TRUE, in listing order; it returns     *)
(* (with or without an error) before the first lookup of the pass; and a   *)
(* failed batch insert does not stop the pass: every entry is looked up.   *)
(***************************************************************************)
C4_BatchInsertFirst ==
    Returned =>
    \A hi \in HostIdx :
        Listed(hi) =>
            LET inserts == CallsAt("TryInsertNewBatch", hi, 0)
            IN  /\ Cardinality(inserts) = 1
                /\ \A b \in inserts :
                      /\ calls[b].arg =
                            [k \in EntryIdx(hi) |-> [URI |-> HostListing(hi)[k], Enabled |-> TRUE]]
                      /\ \A k \in PassCalls(hi) : calls[k].op # "TryInsertNewBatch" => k > b
                /\ h > hi => \A ei \in EntryIdx(hi) : HasCall("GetByURI", hi, ei)

\* a batch insert of two names failed and both entries were looked up all the same
C4_Witness ==
    Returned /\
    \E hi \in HostIdx :
        /\ Listed(hi)
        /\ h > hi
        /\ Len(HostListing(hi)) = 2
        /\ ~TheCall("TryInsertNewBatch", hi, 0).ok
        /\ HasCall("GetByURI", hi, 1)
        /\ HasCall("GetByURI", hi, 2)

\* names some host lists
ListedNames == UNION {{HostListing(hi)[k] : k \in EntryIdx(hi)} : hi \in HostIdx}

\* nothing the runs read has changed since before the first run, and no call failed
Unchanged == ~envChanged /\ ~dirChanged /\ faults = 0

(***************************************************************************)
(* C9, as stated.  A second run over an unchanged listing, directory,      *)
(* clone state and configuration issues no update enqueue for any entry.   *)
(***************************************************************************)
C9_SecondRunEnqueuesNothing ==
    (run >= 2 /\ Unchanged) => EnqueuedIn(calls) = {}

(***************************************************************************)
(* C9, amended.  A second run over an unchanged listing, directory, clone  *)
(* state and configuration, no collaborator call failing, issues an update *)
(* enqueue for exactly the entries the first run did: the listed enabled   *)
(* repositories that are not cloned, and all listed enabled repositories   *)
(* when auto-updates are not disabled.  It issues none only for entries    *)
(* that are disabled, or cloned while auto-updates are disabled.           *)
(***************************************************************************)
C9_SecondRunRepeatsEnqueues ==
    (pc = "done" /\ run >= 2 /\ Unchanged) =>
        /\ EnqueuedIn(calls) = prevEnq
        /\ EnqueuedIn(calls) =
              {n \in ListedNames :
                  dir[n] = "enabled" /\ (~isCloned[n] \/ ~conf.DisableAutoGitUpdates)}

\* a second run over unchanged state enqueued a cloned repository again
C9_Witness ==
    /\ pc = "done"
    /\ run = 2
    /\ Unchanged
    /\ \E n \in EnqueuedIn(calls) : isCloned[n] /\ n \in prevEnq

(***************************************************************************)
(* C10.  The pass does not depend on the triggering request: no call of    *)
(* the pass is made with a context that is done, also after the request    *)
(* was cancelled, and the handler ends only after a failed listing or      *)
(* after every entry of every host was visited.                            *)
(***************************************************************************)
C10_PassOutlivesRequest ==
    Returned =>
       /\ \A k \in 1..Len(calls) : ~calls[k].ctxDone
       /\ \/ /\ retErr
             /\ calls[Len(calls)].op = "ListGitolite"
             /\ ~calls[Len(calls)].ok
          \/ /\ ~retErr
             /\ \A hi \in HostIdx :
                   Listed(hi) /\ \A ei \in EntryIdx(hi) : HasCall("GetByURI", hi, ei)

\* the request was cancelled before the first call; every call that followed went
\* through and the pass ended with an update enqueued
C10_Witness ==
    /\ pc = "done"
    /\ ~retErr
    /\ cancelledEarly
    /\ \A k \in 1..Len(calls) : calls[k].ok
    /\ EnqueuedIn(calls) # {}

\* the enqueue decisions of the run: one read of the suppression flag (line 87) each
FlagReads == {k \in 1..Len(calls) : calls[k].op = "conf.Get"}

(***************************************************************************)
(* C11.  The configuration of a pass is a snapshot taken at pass start: if *)
(* the configuration changes while the pass runs, every entry of the pass  *)
(* still gets its enqueue decision from the value of the suppression flag  *)
(* that held when the pass started.                                        *)
(***************************************************************************)
C11_ConfigSnapshot ==
    Returned =>
        \A k \in FlagReads :
            HasCall("EnqueueRepoUpdate", calls[k].h, calls[k].i) <=>
                ShouldEnqueue(startDisabled, TheCall("IsRepoCloned", calls[k].h, calls[k].i).res)

MetaOp == "tryUpdateGitolitePhabricatorMetadata"

\* the enqueue of entry ei of host hi was issued and failed
EnqueueFailedFor(hi, ei) ==
    HasCall("EnqueueRepoUpdate", hi, ei) /\ ~TheCall("EnqueueRepoUpdate", hi, ei).ok

(***************************************************************************)
(* C12, as stated.  When the host carries a metadata-refresh command, the  *)
(* metadata refresh is invoked for every listed entry that resolved to an  *)
(* enabled repository and whose clone-presence check succeeded, whether    *)
(* its enqueue was skipped, succeeded or failed.                           *)
(***************************************************************************)
C12_MetadataAfterAnyEnqueue ==
    Returned =>
    \A hi \in HostIdx : \A ei \in EntryIdx(hi) :
        (/\ hosts[hi].PhabricatorMetadataCommand # ""
         /\ Past(hi, ei) /\ Resolved(hi, ei) /\ CloneKnown(hi, ei))
            => HasCall(MetaOp, hi, ei)

(***************************************************************************)
(* C12, amended.  When the host carries a metadata-refresh command, the    *)
(* metadata refresh is invoked for exactly the listed entries that         *)
(* resolved to an enabled repository, whose clone-presence check succeeded *)
(* and whose enqueue was skipped or succeeded, after the enqueue if there  *)
(* was one.  A failed enqueue ends the handling of its entry, so that the  *)
(* metadata refresh is not invoked for it, and the pass goes on with the   *)
(* next entry.  A host without the command gets no metadata refresh.       *)
(***************************************************************************)
C12_MetadataUnlessEnqueueFailed ==
    Returned =>
    \A hi \in HostIdx :
        Listed(hi) => \A ei \in EntryIdx(hi) :
            Past(hi, ei) =>
                LET es == EntryCalls(hi, ei)
                    meta == {k \in 1..Len(es) : es[k].op = MetaOp}
                    enqueues == {k \in 1..Len(es) : es[k].op = "EnqueueRepoUpdate"}
                    resolved == \E k \in 1..Len(es) :
                                    es[k].op = "GetByURI" /\ es[k].ok /\ es[k].res
                    cloneKnown == \E k \in 1..Len(es) : es[k].op = "IsRepoCloned" /\ es[k].ok
                    enqueueFailed == \E k \in enqueues : ~es[k].ok
                IN  /\ (meta # {}) <=>
                          /\ hosts[hi].PhabricatorMetadataCommand # ""
                          /\ resolved
                          /\ cloneKnown
                          /\ ~enqueueFailed
                    /\ \A k, j \in meta : k = j
                    /\ \A k \in meta : \A j \in enqueues : j < k
                    /\ (enqueueFailed /\ ei < Len(HostListing(hi))) =>
                          EntryCalls(hi, ei + 1) # << >>

\* on a host with the command, the enqueue of the first entry failed and no metadata
\* refresh was made for it; the second entry got its enqueue and its metadata refresh
C12_Witness ==
    Returned /\
    \E hi \in HostIdx :
        /\ hosts[hi].PhabricatorMetadataCommand # ""
        /\ Listed(hi)
        /\ Len(HostListing(hi)) = 2
        /\ Resolved(hi, 1) /\ CloneKnown(hi, 1)
        /\ EnqueueFailedFor(hi, 1)
        /\ ~HasCall(MetaOp, hi, 1)
        /\ HasCall("EnqueueRepoUpdate", hi, 2)
        /\ HasCall(MetaOp, hi, 2)

\* entry ei of host hi resolved to a record with Enabled = FALSE
DisabledRecord(hi, ei) ==
    /\ HasCall("GetByURI", hi, ei)
    /\ TheCall("GetByURI", hi, ei).ok
    /\ ~TheCall("GetByURI", hi, ei).res

(***************************************************************************)
(* C13.  A listed entry that resolves to a repository record with          *)
(* Enabled = FALSE is skipped: the lookup is the only call made for it (no *)
(* clone-presence check, no read of the flag, no enqueue, no metadata      *)
(* refresh), and the pass continues: with the next entry of the listing,   *)
(* or with the listing of the next host, or with the 204 response when     *)
(* the entry was the last one of the last host.                            *)
(***************************************************************************)
C13_DisabledEntrySkipped ==
    Returned =>
    \A hi \in HostIdx :
        Listed(hi) => \A ei \in EntryIdx(hi) :
            LET es == EntryCalls(hi, ei)
            IN  (\E k \in 1..Len(es) : es[k].op = "GetByURI" /\ es[k].ok /\ ~es[k].res) =>
                    /\ Len(es) = 1
                    /\ ei < Len(HostListing(hi)) => HasCall("GetByURI", hi, ei + 1)
                    /\ (ei = Len(HostListing(hi)) /\ hi < Len(hosts)) =>
                          HasCall("ListGitolite", hi + 1, 0)
                    /\ (ei = Len(HostListing(hi)) /\ hi = Len(hosts)) =>
                          ~retErr /\ Len(resp) = 2

\* on a host with the metadata command, the first entry resolved to a disabled
\* record and was skipped; the second was enqueued and had its metadata refreshed
C13_Witness ==
    Returned /\
    \E hi \in HostIdx :
        /\ hosts[hi].PhabricatorMetadataCommand # ""
        /\ Listed(hi)
        /\ Len(HostListing(hi)) = 2
        /\ DisabledRecord(hi, 1)
        /\ Len(EntryCalls(hi, 1)) = 1
        /\ HasCall("EnqueueRepoUpdate", hi, 2)
        /\ HasCall(MetaOp, hi, 2)

(***************************************************************************)
(* Reading the record of a bridge request.                                 *)
(***************************************************************************)
BridgeOps == {bcalls[k].op : k \in 1..Len(bcalls)}

\* the directory lookup of the request went through
LookedUp == Len(bcalls) >= 1 /\ bcalls[1].op = "GetByURI" /\ bcalls[1].ok

\* the Git Execution Backend was invoked
BackendInvoked == BridgeOps \cap {"Command.Output", "UploadPack"} # {}

(***************************************************************************)
(* C5, as stated.  For a repository found with enabled = false the bridge  *)
(* fails with a repo-disabled error, and neither an info/refs request nor  *)
(* an upload-pack request invokes the Git Execution Backend or writes to   *)
(* the response.                                                           *)
(***************************************************************************)
C5_DisabledRepoNeverServed ==
    (bpc = "done" /\ LookedUp /\ dir[breq.repo] = "disabled") =>
        /\ berr = "repo is not enabled"
        /\ ~BackendInvoked
        /\ bresp = << >>

(***************************************************************************)
(* C5, amended.  For a repository found with enabled = false, an info/refs *)
(* request fails with a repo-disabled error, invokes no git execution and  *)
(* writes nothing; an upload-pack request does not check the flag: it      *)
(* returns no error and hands the session to the Git Execution Backend.    *)
(***************************************************************************)
C5_DisabledRepoGate ==
    (bpc = "done" /\ LookedUp /\ dir[breq.repo] = "disabled") =>
        /\ breq.kind = "info/refs" =>
              /\ berr = "repo is not enabled"
              /\ ~BackendInvoked
              /\ bresp = << >>
        /\ breq.kind = "git-upload-pack" =>
              /\ berr = ""
              /\ "UploadPack" \in BridgeOps

\* an info/refs request for a disabled repository was turned down
C5_Witness ==
    /\ bpc = "done"
    /\ breq.kind = "info/refs"
    /\ breq.service = "git-upload-pack"
    /\ LookedUp
    /\ dir[breq.repo] = "disabled"
    /\ berr = "repo is not enabled"

(***************************************************************************)
(* C6.  An info/refs request whose service parameter is not                *)
(* "git-upload-pack" (absent, or "git-receive-pack") is rejected with the  *)
(* unsupported-service error and has no side effect: no lookup, no git     *)
(* execution, no content type, no byte written.                            *)
(***************************************************************************)
C6_UnsupportedServiceRejected ==
    (bpc = "done" /\ breq.kind = "info/refs" /\ breq.service # "git-upload-pack") =>
        /\ berr = "only support service git-upload-pack"
        /\ bcalls = << >>
        /\ bresp = << >>

\* a git-receive-pack advertisement was asked of an enabled repository
C6_Witness ==
    /\ bpc = "done"
    /\ breq.kind = "info/refs"
    /\ breq.service = "git-receive-pack"
    /\ dir[breq.repo] = "enabled"
    /\ berr # ""

\* the first write of a response, or one past its end
FirstWrite(ws) ==
    IF \E k \in 1..Len(ws) : ws[k].kind \in {"Write", "WriteHeader"}
    THEN CHOOSE k \in 1..Len(ws) :
            /\ ws[k].kind \in {"Write", "WriteHeader"}
            /\ \A j \in 1..(k - 1) : ws[j].kind \notin {"Write", "WriteHeader"}
    ELSE Len(ws) + 1

(***************************************************************************)
(* C7.  A served advertisement (repository found enabled, git execution    *)
(* succeeded) sets the content type                                        *)
(* application/x-git-upload-pack-advertisement before anything is written, *)
(* and its body is "001e# service=git-upload-pack\n", then "0000", then    *)
(* the bytes the backend returned, unchanged and unframed.  If the lookup  *)
(* or the git execution fails, nothing is written.                         *)
(***************************************************************************)
C7_AdvertisementBody ==
    (bpc = "done" /\ breq.kind = "info/refs" /\ breq.service = "git-upload-pack") =>
        IF LookedUp /\ dir[breq.repo] = "enabled" /\ Len(bcalls) = 2 /\ bcalls[2].ok
        THEN /\ berr = ""
             /\ \E k \in 1..(FirstWrite(bresp) - 1) :
                   /\ bresp[k].kind = "Header.Set"
                   /\ bresp[k].val = "application/x-git-upload-pack-advertisement"
             /\ Body(bresp) = << "0", "0", "1", "e" >> \o ServiceHeader
                                 \o << "0", "0", "0", "0" >> \o bcalls[2].res
        ELSE /\ berr # ""
             /\ bresp = << >>

\* an advertisement of one ref was served
C7_Witness ==
    /\ bpc = "done"
    /\ breq.kind = "info/refs"
    /\ berr = ""
    /\ Len(bcalls) = 2
    /\ Len(bcalls[2].res) = 12
    /\ Len(Body(bresp)) = 30 + 4 + 12

(***************************************************************************)
(* Reading a pkt-line prefix.                                              *)
(***************************************************************************)
IsLowerHex(c) == \E d \in 1..16 : HexDigits[d] = c

HexVal(c) == (CHOOSE d \in 1..16 : HexDigits[d] = c) - 1

RECURSIVE ParseHex(_)
ParseHex(ds) ==
    IF ds = << >> THEN 0
    ELSE 16 * ParseHex(SubSeq(ds, 1, Len(ds) - 1)) + HexVal(ds[Len(ds)])

(***************************************************************************)
(* C8.  For a payload of length L, 0 <= L <= 65516, packetWrite returns    *)
(* L + 4 bytes: four lowercase hex digits that read as L + 4, then the     *)
(* payload unchanged.  The empty payload gives "0004", not the flush frame *)
(* "0000".                                                                 *)
(***************************************************************************)
C8_PktLineLength ==
    (pktPc = "done" /\ Len(pktIn) <= 65516) =>
        LET L == Len(pktIn) IN
        /\ Len(pktOut) = L + 4
        /\ \A k \in 1..4 : IsLowerHex(pktOut[k])
        /\ ParseHex(SubSeq(pktOut, 1, 4)) = L + 4
        /\ SubSeq(pktOut, 5, L + 4) = pktIn
        /\ L = 0 => pktOut = << "0", "0", "0", "4" >> /\ pktOut # FlushPkt

\* the longest payload was framed: its prefix is "fff0"
C8_Witness ==
    /\ pktPc = "done"
    /\ Len(pktIn) = 65516
    /\ SubSeq(pktOut, 1, 4) = << "f", "f", "f", "0" >>

====
